---------------------------- MODULE Spec2Model ----------------------------
(***************************************************************************)
(* MECEMap: per-region binary masks are merged into one labeled volume,    *)
(* the gaps of every 2D slice are filled with the label of the nearest     *)
(* region, the volume is split back into per-region masks, and the masks   *)
(* are re-oriented between the dorsal, coronal and sagittal conventions.   *)
(*                                                                         *)
(* The module holds one state machine per stage:                           *)
(*   SpecFill      utils/sdf_utils.py   fill_2d_image_gaps                 *)
(*   SpecViews     utils/views_converter_utils.py                          *)
(*   SpecAssemble  utils/file_utils.py + utils/tiff_utils.py (merge, then  *)
(*                 extract)                                                *)
(*   SpecExtract   utils/tiff_utils.py  extract on an arbitrary volume     *)
(*   SpecSequence  anatomical_regions_mece.py steps C, D, E: split, fill    *)
(*                 every slice, stack again                                *)
(* The variables of the stages a specification does not run stay at their  *)
(* idle values.                                                            *)
(***************************************************************************)
EXTENDS Integers, Sequences, FiniteSets

VARIABLES
    \* ---- fill_2d_image_gaps (utils/sdf_utils.py)
    image,            \* the loaded slice: [Pixels -> gray value]
    max_distance,     \* the distance bound, in pixels
    filled_image,     \* the working copy that is saved
    unique_colors,    \* what is left of the loop over np.unique(image)
    min_distances,    \* squared distance to the closest region so far, or Inf
    closest_values,   \* gray value of the closest region so far
    saved,            \* the image at output_path, NoFile before io.imsave
    pc,               \* "loop" | "fill" | "saved" | "idle"
    run,              \* 1: fill of the input; 2: fill of the first output
    \* ---- view conversions (utils/views_converter_utils.py)
    tif_file_data,    \* the volume of the current file: [shape, data]
    view,             \* the convention of the current file
    history,          \* the files so far, first to last: [view, tif]
    \* ---- region table, merge and extract (utils/file_utils.py, tiff_utils.py)
    table,            \* the lines of the region table: [region_name, color]
    region_files,     \* the mask file of each region name, or NoFile
    catalog,          \* what the parser returned, NoCatalog before
    combined_tiff,    \* the labeled volume file, or NoFile
    extracted,        \* the extractor's output directory: name -> mask or NoFile
    written,          \* the masks the extractor saved, in order: [name, mask]
    done,             \* the operations that ran, in order, with their outcome
    extract_result,   \* what the extractor gave its caller: [raised, value]
    \* ---- slice fan-out (anatomical_regions_mece.py steps C, D, E)
    tif_stack,            \* the pages of the merged stack, in Z order
    images_sequences_dir, \* directory 3_images_sequences: file name -> slice
    mece_sequences_dir,   \* directory 4_images_sequences__MECE: file name -> slice
    mece_regions_stack,   \* the pages of the reassembled stack, NoFile before
    to_fill,              \* the listed files the fill loop has not reached yet
    step,                 \* "C" | "D" | "filling" | "E" | "done" | "idle"
    sequence_max_distance \* the max_distance of step D

fillVars == <<image, max_distance, filled_image, unique_colors, min_distances,
              closest_values, saved, pc, run>>

viewVars == <<tif_file_data, view, history>>

asmVars == <<table, region_files, catalog, combined_tiff, extracted, written,
             done, extract_result>>

seqVars == <<tif_stack, images_sequences_dir, mece_sequences_dir,
             mece_regions_stack, to_fill, step, sequence_max_distance>>

vars == <<fillVars, viewVars, asmVars, seqVars>>

-----------------------------------------------------------------------------
(* Bounds of the model.                                                    *)

\* A slice has 1..MaxH rows and 1..MaxW columns.
MaxH == 2
MaxW == 2
\* max_distance ranges over 0..MaxDistance.
MaxDistance == 1
\* Each axis of a volume has 1..MaxDim voxels.
MaxDim == 2
\* An input volume has at most MaxLabeled non-zero voxels.
MaxLabeled == 1
\* A volume goes through at most MaxConversions conversions.
MaxConversions == 2
\* A stack that is split into slices has 1..MaxPages pages.
MaxPages == 11
\* A region table has 0..MaxLines lines.
MaxLines == 2
\* A mask, and a labeled volume that is merged or extracted, has NVoxels
\* voxels (both operations work voxel by voxel, whatever the shape).
NVoxels == 2

-----------------------------------------------------------------------------
(* Gray values.                                                            *)

\* 0 is the background (sdf_utils.py line 93).
Background == 0

\* The gray values of the slices that are enumerated: background and two
\* region labels.
Colors == {Background, 10, 20}

NoFile == <<>>

Min(S) == CHOOSE m \in S : \A x \in S : m <= x

Max(S) == CHOOSE m \in S : \A x \in S : m >= x

\* The region labels of the volumes and masks that are enumerated.
Labels == Colors \ {Background}

Idle == "idle"

\* The stages at rest.
ViewIdle ==
    /\ tif_file_data = Idle
    /\ view = Idle
    /\ history = <<>>

NoCatalog == "nocatalog"

SeqIdle ==
    /\ tif_stack = <<>>
    /\ images_sequences_dir = <<>>
    /\ mece_sequences_dir = <<>>
    /\ mece_regions_stack = NoFile
    /\ to_fill = {}
    /\ step = Idle
    /\ sequence_max_distance = 0

\* The extractor was not called yet.
NotCalled == [raised |-> FALSE, value |-> "not called"]

AsmIdle ==
    /\ table = <<>>
    /\ region_files = Idle
    /\ catalog = NoCatalog
    /\ combined_tiff = NoFile
    /\ extracted = Idle
    /\ written = <<>>
    /\ done = <<>>
    /\ extract_result = NotCalled

-----------------------------------------------------------------------------
(* fill_2d_image_gaps                                                      *)

Pixels(h, w) == (1..h) \X (1..w)

\* The 5x5 slice of the scenario: column 0 is label 10, column 4 is label 20
\* (columns 1 and 5 here: indices start at 1).
Scenario5x5 ==
    [p \in Pixels(5, 5) |->
        IF p[2] = 1 THEN 10 ELSE IF p[2] = 5 THEN 20 ELSE Background]

\* Squared Euclidean distance between two pixels.  The code compares the
\* floating-point roots; the root is strictly increasing, so every comparison
\* between two distances, and between a distance and a non-negative integer
\* bound, has the same outcome on the squares.
DistSq(p, q) == (p[1] - q[1]) * (p[1] - q[1]) + (p[2] - q[2]) * (p[2] - q[2])

\* np.inf, the initial min_distances: larger than every distance.
Inf == -1

\* mask = (image == color_value): the pixels of the region.
Mask(img, color_value) == {q \in DOMAIN img : img[q] = color_value}

\* dt = distance_transform_edt(1 - mask): at each pixel the (squared) distance
\* to the nearest pixel of the mask.
distance_transform_edt(img, color_value) ==
    [p \in DOMAIN img |-> Min({DistSq(p, q) : q \in Mask(img, color_value)})]

\* The bound taken as exclusive.
WithinMaxDistanceExclusive(d, maxd) == d # Inf /\ d < maxd * maxd

\* dt <= max_distance
WithinMaxDistance(d, maxd) == d # Inf /\ d <= maxd * maxd

\* The comparison taken as <=: a later color at an equal distance wins.
CloserOrEqual(d, m) == m = Inf \/ d <= m

\* dt < min_distances: a later color at an equal distance does not win.
CloserThan(d, m) == m = Inf \/ d < m

\* mask_update = (dt < min_distances) & (dt <= max_distance)
mask_update(dt, mind, maxd, p) ==
    CloserThan(dt[p], mind[p]) /\ WithinMaxDistance(dt[p], maxd)

\* fill_condition = (image == 0) & (min_distances <= max_distance)
fill_condition(img, mind, maxd, p) ==
    img[p] = Background /\ WithinMaxDistance(mind[p], maxd)

\* The output started from a blank image instead of a copy.
BlankImage(img) == [p \in DOMAIN img |-> Background]

\* filled_image = image.copy()
CopyOfImage(img) == img

\* np.unique(image): the distinct values in ascending order.
RECURSIVE SortedSeq(_)
SortedSeq(S) ==
    IF S = {} THEN <<>> ELSE <<Min(S)>> \o SortedSeq(S \ {Min(S)})

np_unique(img) == SortedSeq({img[p] : p \in DOMAIN img})

\* Lines 74-89: load the image and allocate the working arrays.
StartFill(img) ==
    /\ image' = img
    /\ filled_image' = CopyOfImage(img)
    /\ unique_colors' = np_unique(img)
    /\ min_distances' = [p \in DOMAIN img |-> Inf]
    /\ closest_values' = [p \in DOMAIN img |-> Background]
    /\ pc' = "loop"

InputSlices ==
    UNION {[Pixels(h, w) -> Colors] : h \in 1..MaxH, w \in 1..MaxW}

InitFill ==
    /\ \/ /\ image \in InputSlices
          /\ max_distance \in 0..MaxDistance
       \/ /\ image = Scenario5x5
          /\ max_distance = 2
    /\ filled_image = CopyOfImage(image)
    /\ unique_colors = np_unique(image)
    /\ min_distances = [p \in DOMAIN image |-> Inf]
    /\ closest_values = [p \in DOMAIN image |-> Background]
    /\ saved = NoFile
    /\ pc = "loop"
    /\ run = 1
    /\ ViewIdle
    /\ AsmIdle
    /\ SeqIdle

\* One iteration of the loop over unique_colors (lines 92-108).
FillColor ==
    /\ pc = "loop"
    /\ unique_colors # <<>>
    /\ LET color_value == Head(unique_colors)
           dt == distance_transform_edt(image, color_value)
       IN  IF color_value = Background
           THEN UNCHANGED <<min_distances, closest_values>>
           ELSE /\ min_distances' =
                     [p \in DOMAIN image |->
                        IF mask_update(dt, min_distances, max_distance, p)
                        THEN dt[p] ELSE min_distances[p]]
                /\ closest_values' =
                     [p \in DOMAIN image |->
                        IF mask_update(dt, min_distances, max_distance, p)
                        THEN color_value ELSE closest_values[p]]
    /\ unique_colors' = Tail(unique_colors)
    /\ UNCHANGED <<image, max_distance, filled_image, saved, pc, run>>
    /\ UNCHANGED <<viewVars, asmVars, seqVars>>

\* The loop is over (no color is left).
EndLoop ==
    /\ pc = "loop"
    /\ unique_colors = <<>>
    /\ pc' = "fill"
    /\ UNCHANGED <<image, max_distance, filled_image, unique_colors,
                   min_distances, closest_values, saved, run>>
    /\ UNCHANGED <<viewVars, asmVars, seqVars>>

\* Lines 111-115: fill the background pixels within max_distance and save.
FillGaps ==
    /\ pc = "fill"
    /\ filled_image' =
          [p \in DOMAIN image |->
             IF fill_condition(image, min_distances, max_distance, p)
             THEN closest_values[p] ELSE filled_image[p]]
    /\ saved' = filled_image'
    /\ pc' = "saved"
    /\ UNCHANGED <<image, max_distance, unique_colors, min_distances,
                   closest_values, run>>
    /\ UNCHANGED <<viewVars, asmVars, seqVars>>

\* fill_2d_image_gaps is called again on the image it saved, with the same
\* max_distance.
Refill ==
    /\ pc = "saved"
    /\ run = 1
    /\ StartFill(saved)
    /\ run' = 2
    /\ UNCHANGED <<max_distance, saved>>
    /\ UNCHANGED <<viewVars, asmVars, seqVars>>

FillIdle ==
    /\ image = Idle
    /\ max_distance = 0
    /\ filled_image = Idle
    /\ unique_colors = <<>>
    /\ min_distances = Idle
    /\ closest_values = Idle
    /\ saved = NoFile
    /\ pc = Idle
    /\ run = 0

NextFill == FillColor \/ EndLoop \/ FillGaps \/ Refill

SpecFill == InitFill /\ [][NextFill]_vars

-----------------------------------------------------------------------------
(* Properties of fill_2d_image_gaps, stated on the input (image) and the   *)
(* saved output of a finished call.                                        *)

FillDone == pc = "saved"

Labeled(img) == {q \in DOMAIN img : img[q] # Background}

\* Some labeled pixel of img lies within maxd of p.
NearLabeled(img, p, maxd) ==
    \E q \in Labeled(img) : DistSq(p, q) <= maxd * maxd

\* Squared distance from p to the nearest pixel of img with value c.
NearestSq(img, c, p) == Min({DistSq(p, q) : q \in Mask(img, c)})

\* C1: a pixel that is non-zero in the input keeps its value in the output,
\* also when a pixel of another label lies within max_distance of it; only
\* pixels that are 0 in the input can differ.
C1_LabeledPixelsKept ==
    FillDone =>
        /\ DOMAIN saved = DOMAIN image
        /\ \A p \in DOMAIN image :
              /\ image[p] # Background => saved[p] = image[p]
              /\ saved[p] # image[p] => image[p] = Background

\* A finished call that filled a background pixel while a labeled pixel had a
\* pixel of another label within max_distance.
C1_Witness ==
    /\ FillDone
    /\ \E p \in DOMAIN image : image[p] = Background /\ saved[p] # Background
    /\ \E p, q \in Labeled(image) :
          /\ image[p] # image[q]
          /\ DistSq(p, q) <= max_distance * max_distance

\* C2: a background pixel of the input is filled if and only if its distance
\* to the nearest non-zero input pixel is <= max_distance; a filled pixel has
\* an input pixel of the assigned label within max_distance.
C2_FilledIffWithinMaxDistance ==
    FillDone =>
        \A p \in DOMAIN image :
            image[p] = Background =>
                /\ saved[p] # Background <=> NearLabeled(image, p, max_distance)
                /\ saved[p] # Background =>
                      \E q \in Mask(image, saved[p]) :
                          DistSq(p, q) <= max_distance * max_distance

\* A finished call with max_distance > 0 that filled a pixel whose nearest
\* region is exactly max_distance away and left a farther pixel at 0.
C2_Witness ==
    /\ FillDone
    /\ max_distance > 0
    /\ \E p \in DOMAIN image :
          /\ image[p] = Background
          /\ saved[p] # Background
          /\ ~ NearLabeled(image, p, max_distance - 1)
          /\ NearestSq(image, saved[p], p) = max_distance * max_distance
    /\ \E p \in DOMAIN image :
          /\ image[p] = Background
          /\ saved[p] = Background
          /\ Labeled(image) # {}

\* C3: the label given to a filled pixel is the smallest gray value among the
\* labels of the slice that attain the minimum distance to the pixel (the
\* first in the ascending order of np.unique); in the 5x5 scenario column 1
\* becomes 10, column 3 becomes 20 and column 2 becomes 10.
C3_NearestLabelFirstWins ==
    FillDone =>
        /\ \A p \in DOMAIN image :
              (image[p] = Background /\ saved[p] # Background) =>
                  LET labels == {image[q] : q \in Labeled(image)}
                  IN  /\ saved[p] \in labels
                      /\ \A c \in labels :
                            NearestSq(image, saved[p], p) <= NearestSq(image, c, p)
                      /\ \A c \in labels :
                            c < saved[p] =>
                               NearestSq(image, saved[p], p) < NearestSq(image, c, p)
        /\ (image = Scenario5x5 /\ max_distance = 2) =>
              \A r \in 1..5 :
                  /\ saved[<<r, 1>>] = 10
                  /\ saved[<<r, 2>>] = 10
                  /\ saved[<<r, 3>>] = 10
                  /\ saved[<<r, 4>>] = 20
                  /\ saved[<<r, 5>>] = 20

\* The finished fill of the 5x5 scenario, whose middle column is at distance
\* 2 from both regions.
C3_Witness ==
    /\ FillDone
    /\ run = 1
    /\ image = Scenario5x5
    /\ max_distance = 2
    /\ \A r \in 1..5 :
          /\ NearestSq(image, 10, <<r, 3>>) = NearestSq(image, 20, <<r, 3>>)
          /\ saved[<<r, 3>>] # Background

\* C4 as stated: the fill of the output of a fill changes no pixel.
C4_FillIdempotent ==
    (FillDone /\ run = 2) => saved = image

\* C4 amended: the fill of the output of a fill changes no non-zero pixel of
\* that output, and it changes no pixel at all exactly when no background
\* pixel of that output lies within max_distance of a non-zero pixel of it.
C4_RefillFixedPointIffNoNearGap ==
    (FillDone /\ run = 2) =>
        /\ \A p \in Labeled(image) : saved[p] = image[p]
        /\ saved = image <=>
              \A p \in DOMAIN image :
                  image[p] = Background => ~ NearLabeled(image, p, max_distance)

\* A second fill, with max_distance > 0, that changed a pixel.
C4_Witness ==
    /\ FillDone
    /\ run = 2
    /\ max_distance > 0
    /\ saved # image

-----------------------------------------------------------------------------
(* View conversions.  A volume is a record [shape, data]: shape is the     *)
(* triple of its axis lengths and data maps every index triple (counted    *)
(* from 0, as numpy does) to the voxel's value.  Axes are numbered 0, 1, 2 *)
(* as in the source.                                                       *)

Idx(shape) ==
    (0..(shape[1] - 1)) \X (0..(shape[2] - 1)) \X (0..(shape[3] - 1))

\* The triple t with its entries at axes a and b exchanged.
Swap(t, a, b) == [t EXCEPT ![a + 1] = t[b + 1], ![b + 1] = t[a + 1]]

\* np.flip(m, axis)
np_flip(m, axis) ==
    [shape |-> m.shape,
     data  |-> [i \in Idx(m.shape) |->
                  m.data[[i EXCEPT ![axis + 1] = m.shape[axis + 1] - 1 - i[axis + 1]]]]]

\* np.transpose(m, axes_list) with axes_list the identity but for axes a and
\* b exchanged, as np.rot90 builds it.
np_transpose(m, a, b) ==
    [shape |-> Swap(m.shape, a, b),
     data  |-> [i \in Idx(Swap(m.shape, a, b)) |-> m.data[Swap(i, a, b)]]]

\* np.rot90(m, k, axes): k quarter turns from axis axes[0] towards axes[1].
np_rot90(m, k, axes) ==
    LET kk == k % 4
        a == axes[1]
        b == axes[2]
    IN  CASE kk = 0 -> m
          [] kk = 2 -> np_flip(np_flip(m, a), b)
          [] kk = 1 -> np_transpose(np_flip(m, b), a, b)
          [] kk = 3 -> np_flip(np_transpose(m, a, b), b)

\* transpose_tif with the loop stopping one slice early: the last slice of
\* the zero-initialised result is never written.
transpose_tif_short(v) ==
    [shape |-> <<v.shape[1], v.shape[3], v.shape[2]>>,
     data  |-> [i \in Idx(<<v.shape[1], v.shape[3], v.shape[2]>>) |->
                  IF i[1] < v.shape[1] - 1
                  THEN v.data[<<i[1], i[3], i[2]>>]
                  ELSE Background]]

\* transpose_tif: every slice tif_data[i] transposed.
transpose_tif(v) ==
    [shape |-> <<v.shape[1], v.shape[3], v.shape[2]>>,
     data  |-> [i \in Idx(<<v.shape[1], v.shape[3], v.shape[2]>>) |->
                  v.data[<<i[1], i[3], i[2]>>]]]

convert_dorsal_tif_to_coronal_tif(v) == np_rot90(v, 3, <<0, 1>>)

convert_dorsal_tif_to_sagittal_tif(v) == transpose_tif(np_rot90(v, 3, <<0, 2>>))

\* sagittal->coronal without the flip that follows the rotation.
convert_sagittal_tif_to_coronal_tif_no_flip(v) == np_rot90(v, 3, <<0, 2>>)

convert_sagittal_tif_to_coronal_tif(v) == np_flip(np_rot90(v, 3, <<0, 2>>), 2)

convert_sagittal_tif_to_dorsal_tif(v) == transpose_tif(np_rot90(v, 1, <<0, 1>>))

\* The rotation of coronal->dorsal taken in the direction of dorsal->coronal.
convert_coronal_tif_to_dorsal_tif_same_turn(v) == np_rot90(v, 3, <<0, 1>>)

convert_coronal_tif_to_dorsal_tif(v) == np_rot90(v, -3, <<0, 1>>)

convert_coronal_tif_to_sagittal_tif(v) == np_flip(np_rot90(v, 3, <<0, 2>>), 2)

Views == {"dorsal", "coronal", "sagittal"}

\* The subsets of S with at most k elements.
RECURSIVE UpTo(_, _)
UpTo(S, k) ==
    IF k = 0 THEN {{}}
    ELSE LET smaller == UpTo(S, k - 1)
         IN  smaller \cup {T \cup {x} : T \in smaller, x \in S}

Shapes == (1..MaxDim) \X (1..MaxDim) \X (1..MaxDim)

\* The volumes of a shape with at most MaxLabeled labeled voxels.
VolumesOf(shape) ==
    UNION {{[shape |-> shape,
             data  |-> [i \in Idx(shape) |->
                          IF i \in F THEN lab[i] ELSE Background]] :
              lab \in [F -> Labels]} :
           F \in UpTo(Idx(shape), MaxLabeled)}

InputVolumes == UNION {VolumesOf(shape) : shape \in Shapes}

InitViews ==
    /\ FillIdle
    /\ AsmIdle
    /\ SeqIdle
    /\ tif_file_data \in InputVolumes
    /\ view \in Views
    /\ history = <<[view |-> view, tif |-> tif_file_data]>>

\* The file is converted by `converted` from convention `from` to `to`.
Convert(from, to, converted) ==
    /\ view = from
    /\ Len(history) <= MaxConversions
    /\ tif_file_data' = converted
    /\ view' = to
    /\ history' = Append(history, [view |-> to, tif |-> converted])
    /\ UNCHANGED <<fillVars, asmVars, seqVars>>

DorsalToCoronal ==
    Convert("dorsal", "coronal", convert_dorsal_tif_to_coronal_tif(tif_file_data))

DorsalToSagittal ==
    Convert("dorsal", "sagittal", convert_dorsal_tif_to_sagittal_tif(tif_file_data))

SagittalToCoronal ==
    Convert("sagittal", "coronal", convert_sagittal_tif_to_coronal_tif(tif_file_data))

SagittalToDorsal ==
    Convert("sagittal", "dorsal", convert_sagittal_tif_to_dorsal_tif(tif_file_data))

CoronalToDorsal ==
    Convert("coronal", "dorsal", convert_coronal_tif_to_dorsal_tif(tif_file_data))

CoronalToSagittal ==
    Convert("coronal", "sagittal", convert_coronal_tif_to_sagittal_tif(tif_file_data))

NextViews ==
    \/ DorsalToCoronal
    \/ DorsalToSagittal
    \/ SagittalToCoronal
    \/ SagittalToDorsal
    \/ CoronalToDorsal
    \/ CoronalToSagittal

SpecViews == InitViews /\ [][NextViews]_vars

-----------------------------------------------------------------------------
(* Properties of the view conversions.                                     *)

\* The number of voxels of v with value c.
Count(v, c) == Cardinality({i \in Idx(v.shape) : v.data[i] = c})

\* The values that occur in v.
ValuesOf(v) == {v.data[i] : i \in Idx(v.shape)}

\* The volume the conversions started from.
original == history[1].tif

\* C6: a conversion A->B followed by the conversion B->A gives back the
\* volume it was applied to, shape and voxels, for each of the six pairs.
C6_ReorientRoundTrip ==
    \A n \in 1..(Len(history) - 2) :
        history[n].view = history[n + 2].view =>
            /\ history[n + 2].tif.shape = history[n].tif.shape
            /\ history[n + 2].tif = history[n].tif

\* A labeled volume that is not a cube, back in its first convention after
\* two conversions, the first of which moved its voxels.
C6_Witness ==
    /\ Len(history) = 3
    /\ history[1].view = history[3].view
    /\ original.shape[1] # original.shape[2]
    /\ original.shape[2] = original.shape[3]
    /\ \E i \in Idx(original.shape) : original.data[i] # Background
    /\ history[2].tif # original
    /\ tif_file_data = original

\* C7: after any number of conversions the volume has as many voxels of each
\* value as the volume it started from, and as many voxels in all: no value
\* appears that the input lacks, none is lost.
C7_LabelsPreserved ==
    view # Idle =>
        /\ Cardinality(Idx(tif_file_data.shape)) = Cardinality(Idx(original.shape))
        /\ ValuesOf(tif_file_data) \subseteq ValuesOf(original)
        /\ \A c \in ValuesOf(tif_file_data) \cup ValuesOf(original) :
              Count(tif_file_data, c) = Count(original, c)

\* A converted volume of more than one voxel with a labeled voxel, whose
\* voxels moved.
C7_Witness ==
    /\ Len(history) >= 2
    /\ \E i \in Idx(original.shape) : original.data[i] # Background
    /\ tif_file_data # original
    /\ Cardinality(Idx(original.shape)) > 1

-----------------------------------------------------------------------------
(* Region table, merge and extract.  A mask and a labeled volume are       *)
(* functions from Voxels to sample values; every mask has the same shape.  *)

Voxels == 1..NVoxels

\* The sample value of mask foreground (tiff_utils.py line 162).
Foreground == 255

RegionNames == {"a.tif", "b.tif"}

\* A label that no enumerated table holds.
UnknownLabel == Max(Labels) + 10

Masks == [Voxels -> {Background, Foreground}]

LabeledVolumes == [Voxels -> Labels \cup {Background, UnknownLabel}]

\* The sequences over S of length 0..n.
SeqUpTo(S, n) == UNION {[1..k -> S] : k \in 0..n}

Tables == SeqUpTo([region_name : RegionNames, color : Labels], MaxLines)

\* parse_anatomical_structures_txt_file: every line adds its path and color
\* to the lists and (over)writes the map entry of its color.
parse_anatomical_structures_txt_file(lines) ==
    [tif_paths |-> [k \in 1..Len(lines) |-> lines[k].region_name],
     color_values |-> [k \in 1..Len(lines) |-> lines[k].color],
     color_to_region_map |->
        [c \in {lines[k].color : k \in 1..Len(lines)} |->
            lines[Max({k \in 1..Len(lines) : lines[k].color = c})].region_name]]

\* Every merged voxel written with 255, as when no color is given.
MergedValueDefault(color_value) == Foreground

\* color_value if color_value is not None else 255
MergedValue(color_value) == color_value

\* A mask written only where the stack is still 0: the first writer wins.
MergeOneFirstWins(data, mask_data, color_value) ==
    [v \in Voxels |->
        IF mask_data[v] # 0 /\ data[v] = 0
        THEN MergedValue(color_value) ELSE data[v]]

\* tiff_stack_data[mask_data != 0] = color_value
MergeOne(data, mask_data, color_value) ==
    [v \in Voxels |->
        IF mask_data[v] # 0 THEN MergedValue(color_value) ELSE data[v]]

\* The loop of merge_8bit_grayscale_tif_files from pair k on: a path that is
\* no file is skipped.
RECURSIVE MergeLoop(_, _, _, _, _)
MergeLoop(data, tiffs_path, color_values, files, k) ==
    IF k > Len(tiffs_path) THEN data
    ELSE MergeLoop(IF files[tiffs_path[k]] # NoFile
                   THEN MergeOne(data, files[tiffs_path[k]], color_values[k])
                   ELSE data,
                   tiffs_path, color_values, files, k + 1)

\* merge_8bit_grayscale_tif_files raises before it writes anything when
\* tiffs_path is empty (tiffs_path[0]) or its first path is no file
\* (load_image returns None, and None has no shape).
MergeRaises(tiffs_path, files) ==
    tiffs_path = <<>> \/ files[tiffs_path[1]] = NoFile

merge_8bit_grayscale_tif_files(tiffs_path, color_values, files) ==
    MergeLoop([v \in Voxels |-> 0], tiffs_path, color_values, files, 1)

\* The mask taken where the value is at least the color.
BinaryMaskAtLeast(combined_image, color_value) ==
    [v \in Voxels |->
        IF combined_image[v] >= color_value THEN Foreground ELSE Background]

\* binary_mask = zeros; binary_mask[combined_image == color_value] = 255
BinaryMask(combined_image, color_value) ==
    [v \in Voxels |->
        IF combined_image[v] = color_value THEN Foreground ELSE Background]

\* The loop of extract_8bit_grayscale_tif_files from color k on: the state is
\* [dir, log], the output directory and the masks saved so far.
RECURSIVE ExtractLoop(_, _, _, _, _)
ExtractLoop(out, combined_image, colors, color_to_region_dic, k) ==
    IF k > Len(colors) THEN out
    ELSE LET binary_mask == BinaryMask(combined_image, colors[k])
             region_name == color_to_region_dic[colors[k]]
         IN  ExtractLoop(
                 [dir |-> [out.dir EXCEPT ![region_name] = binary_mask],
                  log |-> Append(out.log,
                                 [region_name |-> region_name, mask |-> binary_mask])],
                 combined_image, colors, color_to_region_dic, k + 1)

extract_8bit_grayscale_tif_files(dir, combined_image, colors, color_to_region_dic) ==
    ExtractLoop([dir |-> dir, log |-> <<>>], combined_image, colors,
                color_to_region_dic, 1)

EmptyDir == [n \in RegionNames |-> NoFile]

\* The except branch of the extractor prints the error and returns: the
\* caller gets None and no exception.
ExtractUnreadable == [raised |-> FALSE, value |-> "None"]

\* The extractor runs to its end: the caller gets None and no exception.
ExtractFinished == [raised |-> FALSE, value |-> "None"]

\* The stack file was removed (anatomical_regions_mece.py line 23) and the
\* output directory emptied (line 48) before the stages run.
InitAssemble ==
    /\ FillIdle
    /\ ViewIdle
    /\ SeqIdle
    /\ table \in Tables
    /\ region_files \in [RegionNames -> Masks \cup {NoFile}]
    /\ catalog = NoCatalog
    /\ combined_tiff = NoFile
    /\ extracted = EmptyDir
    /\ written = <<>>
    /\ done = <<>>
    /\ extract_result = NotCalled

\* The extractor is given a labeled volume of any content.
InitExtract ==
    /\ FillIdle
    /\ ViewIdle
    /\ SeqIdle
    /\ table \in Tables
    /\ region_files = EmptyDir
    /\ catalog = NoCatalog
    /\ combined_tiff \in LabeledVolumes
    /\ extracted = EmptyDir
    /\ written = <<>>
    /\ done = <<>>
    /\ extract_result = NotCalled

\* Whether operation op ran.
Did(op) == \E k \in 1..Len(done) : done[k] = op

ParseTable ==
    /\ ~ Did("parse")
    /\ catalog' = parse_anatomical_structures_txt_file(table)
    /\ done' = Append(done, "parse")
    /\ UNCHANGED <<table, region_files, combined_tiff, extracted, written,
                   extract_result>>
    /\ UNCHANGED <<fillVars, viewVars, seqVars>>

Merge ==
    /\ Did("parse")
    /\ ~ Did("merge") /\ ~ Did("merge raised")
    /\ IF MergeRaises(catalog.tif_paths, region_files)
       THEN /\ done' = Append(done, "merge raised")
            /\ UNCHANGED combined_tiff
       ELSE /\ done' = Append(done, "merge")
            /\ combined_tiff' =
                  merge_8bit_grayscale_tif_files(catalog.tif_paths,
                                                 catalog.color_values, region_files)
    /\ UNCHANGED <<table, region_files, catalog, extracted, written,
                   extract_result>>
    /\ UNCHANGED <<fillVars, viewVars, seqVars>>

\* extract_8bit_grayscale_tif_files: a stack that cannot be read is reported
\* on the console and the function returns.
Extract ==
    /\ Did("parse")
    /\ ~ Did("extract") /\ ~ Did("extract returned early")
    /\ IF combined_tiff = NoFile
       THEN /\ done' = Append(done, "extract returned early")
            /\ extract_result' = ExtractUnreadable
            /\ UNCHANGED <<extracted, written>>
       ELSE LET out == extract_8bit_grayscale_tif_files(
                           extracted, combined_tiff, catalog.color_values,
                           catalog.color_to_region_map)
            IN  /\ extracted' = out.dir
                /\ written' = out.log
                /\ done' = Append(done, "extract")
                /\ extract_result' = ExtractFinished
    /\ UNCHANGED <<table, region_files, catalog, combined_tiff>>
    /\ UNCHANGED <<fillVars, viewVars, seqVars>>

NextAssemble == ParseTable \/ Merge \/ Extract

SpecAssemble == InitAssemble /\ [][NextAssemble]_vars

NextExtract == ParseTable \/ Extract

SpecExtract == InitExtract /\ [][NextExtract]_vars

-----------------------------------------------------------------------------
(* Properties of the region table, the merge and the extraction.           *)

Lines == 1..Len(table)

DistinctLabels ==
    \A j, k \in Lines : j # k => table[j].color # table[k].color

DistinctNames ==
    \A j, k \in Lines : j # k => table[j].region_name # table[k].region_name

\* The mask file of line k.
MaskOf(k) == region_files[table[k].region_name]

\* The voxels where mask m is non-zero.
Support(m) == {v \in Voxels : m[v] # 0}

\* Every line names a mask file, no two lines name the same one, no two
\* lines have the same label, and no voxel is foreground in two masks.
DisjointMasksDistinctLabels ==
    /\ Len(table) > 0
    /\ DistinctLabels
    /\ DistinctNames
    /\ \A k \in Lines : MaskOf(k) # NoFile
    /\ \A j, k \in Lines : j # k => Support(MaskOf(j)) \cap Support(MaskOf(k)) = {}

\* C5: for disjoint masks of values 0 and 255 with distinct labels, the
\* extraction of the merged volume writes for every region a mask equal,
\* voxel for voxel, to the region's input mask.
C5_ExtractOfMergeIsInput ==
    (done = <<"parse", "merge", "extract">> /\ DisjointMasksDistinctLabels) =>
        \A k \in Lines :
            /\ extracted[table[k].region_name] = MaskOf(k)
            /\ written[k].mask = MaskOf(k)

\* Two regions with non-empty disjoint masks, merged and extracted.
C5_Witness ==
    /\ done = <<"parse", "merge", "extract">>
    /\ DisjointMasksDistinctLabels
    /\ Len(table) >= 2
    /\ \A k \in Lines : Support(MaskOf(k)) # {}
    /\ \A k \in Lines : extracted[table[k].region_name] = MaskOf(k)

\* The lines whose mask file exists and is non-zero at voxel v.
Claiming(v) == {k \in Lines : MaskOf(k) # NoFile /\ MaskOf(k)[v] # 0}

\* C8: after the merge every voxel holds the label of the last line, in the
\* order of the table, whose mask is non-zero at the voxel, and 0 if no mask
\* is non-zero there.
C8_LastWriterWins ==
    Did("merge") =>
        \A v \in Voxels :
            combined_tiff[v] =
                IF Claiming(v) = {} THEN Background
                ELSE table[Max(Claiming(v))].color

\* A merged volume with a voxel that two lines of different labels claim, and
\* that holds the label of the later one.
C8_Witness ==
    /\ Did("merge")
    /\ \E v \in Voxels :
          \E j, k \in Claiming(v) :
              /\ j < k
              /\ table[j].color # table[k].color
              /\ k = Max(Claiming(v))
              /\ combined_tiff[v] = table[k].color

\* The saved masks in which voxel v is foreground.
ForegroundIn(v) == {k \in 1..Len(written) : written[k].mask[v] = Foreground}

\* C9: the extractor saves one mask per line of the table and none for any
\* other label; every saved mask has only the values 0 and 255; with distinct
\* labels, a voxel is foreground in the mask of the line whose label is the
\* voxel's value and in no other mask, and in no mask at all when its value
\* is 0 or a label the table lacks; with distinct region names as well, the
\* same holds of the files of the output directory.
C9_ExtractIsPartition ==
    Did("extract") =>
        /\ Len(written) = Len(table)
        /\ \A k \in Lines :
              /\ written[k].region_name \in {table[j].region_name : j \in Lines}
              /\ \A v \in Voxels : written[k].mask[v] \in {Background, Foreground}
        /\ \A n \in RegionNames :
              (\A k \in Lines : table[k].region_name # n) => extracted[n] = NoFile
        /\ DistinctLabels =>
              \A v \in Voxels :
                  /\ ForegroundIn(v) = {k \in Lines : table[k].color = combined_tiff[v]}
                  /\ Cardinality(ForegroundIn(v)) <= 1
                  /\ (combined_tiff[v] = Background
                        \/ \A k \in Lines : table[k].color # combined_tiff[v])
                     => ForegroundIn(v) = {}
        /\ (DistinctLabels /\ DistinctNames) =>
              \A k \in Lines : \A v \in Voxels :
                  extracted[table[k].region_name][v] =
                      IF combined_tiff[v] = table[k].color
                      THEN Foreground ELSE Background

\* An extraction under a two-line table with distinct labels and names, of a
\* volume with a voxel of a label of the table and a voxel of a label the
\* table lacks.
C9_Witness ==
    /\ Did("extract")
    /\ Len(table) = 2
    /\ DistinctLabels
    /\ DistinctNames
    /\ \E v \in Voxels : Cardinality(ForegroundIn(v)) = 1
    /\ \E v \in Voxels : combined_tiff[v] = UnknownLabel /\ ForegroundIn(v) = {}

\* C10: a table in which a label appears on two lines is rejected: the parser
\* returns no catalog for it.
C10_DuplicateLabelRejected ==
    Did("parse") => DistinctLabels

\* C11: when the labeled volume cannot be loaded, the extractor writes no
\* mask and gives its caller an error: an exception, so an outcome other
\* than that of an extraction that finished.
C11_UnreadableVolumeSurfaces ==
    Did("extract returned early") =>
        /\ written = <<>>
        /\ extracted = EmptyDir
        /\ extract_result.raised
        /\ extract_result # ExtractFinished

-----------------------------------------------------------------------------
(* Consistency of the view conversions.                                    *)

\* The conversion function the source names for the pair (from, to).
Direct(from, to, v) ==
    CASE from = "dorsal"   /\ to = "coronal"  -> convert_dorsal_tif_to_coronal_tif(v)
      [] from = "dorsal"   /\ to = "sagittal" -> convert_dorsal_tif_to_sagittal_tif(v)
      [] from = "sagittal" /\ to = "coronal"  -> convert_sagittal_tif_to_coronal_tif(v)
      [] from = "sagittal" /\ to = "dorsal"   -> convert_sagittal_tif_to_dorsal_tif(v)
      [] from = "coronal"  /\ to = "dorsal"   -> convert_coronal_tif_to_dorsal_tif(v)
      [] from = "coronal"  /\ to = "sagittal" -> convert_coronal_tif_to_sagittal_tif(v)

\* C12: a volume converted through an intermediate view equals, in shape and
\* at every voxel, the volume converted directly: for every file of the
\* history, the file two conversions later in another view is the direct
\* conversion of it (dorsal->sagittal->coronal equals dorsal->coronal,
\* dorsal->coronal->sagittal equals dorsal->sagittal, and so on).
C12_ViewPathIndependent ==
    \A n \in 1..(Len(history) - 2) :
        history[n].view # history[n + 2].view =>
            LET direct == Direct(history[n].view, history[n + 2].view, history[n].tif)
            IN  /\ history[n + 2].tif.shape = direct.shape
                /\ history[n + 2].tif = direct

\* A labeled volume that is not a cube, converted dorsal->sagittal->coronal,
\* each conversion moving its voxels.
C12_Witness ==
    /\ Len(history) = 3
    /\ history[1].view = "dorsal"
    /\ history[2].view = "sagittal"
    /\ history[3].view = "coronal"
    /\ original.shape[1] # original.shape[2]
    /\ \E i \in Idx(original.shape) : original.data[i] # Background
    /\ history[2].tif # original
    /\ tif_file_data # history[2].tif
    /\ tif_file_data = convert_dorsal_tif_to_coronal_tif(original)

-----------------------------------------------------------------------------
(* Slice fan-out: the stack is split into one file per page, every file is *)
(* gap-filled into a second directory, and the files of that directory are *)
(* stacked again.  A file name is the sequence of the decimal digits of    *)
(* its stem; every file of the two directories has the extension .tif.     *)

\* f'{i}': the decimal digits of i.
RECURSIVE DecimalDigits(_)
DecimalDigits(i) ==
    IF i < 10 THEN <<i>> ELSE Append(DecimalDigits(i \div 10), i % 10)

\* output_img_path = f'{output_path}/{i}.tif'
FileName(i) == DecimalDigits(i)

\* int() of a run of decimal digits.
RECURSIVE ParseDigits(_)
ParseDigits(digits) ==
    IF digits = <<>> THEN 0
    ELSE 10 * ParseDigits(SubSeq(digits, 1, Len(digits) - 1)) + digits[Len(digits)]

\* The key taken from the first digit alone, as the pattern (\d) would.
numerical_sort_first_digit(filename) == filename[1]

\* numerical_sort: the integer of the first run of digits of the name.
numerical_sort(filename) == ParseDigits(filename)

\* sorted(..., key=numerical_sort) of a list: a stable sort, here by
\* insertion of every element behind the elements whose key is not larger.
RECURSIVE sorted(_)
sorted(listing) ==
    IF listing = <<>> THEN <<>>
    ELSE LET front == sorted(SubSeq(listing, 1, Len(listing) - 1))
             x == listing[Len(listing)]
             k == Cardinality({j \in 1..Len(front) :
                                  numerical_sort(front[j]) <= numerical_sort(x)})
         IN  SubSeq(front, 1, k) \o <<x>> \o SubSeq(front, k + 1, Len(front))

\* The directory with file name holding img.
Put(dir, name, img) ==
    [n \in DOMAIN dir \cup {name} |-> IF n = name THEN img ELSE dir[n]]

\* remove_all_files: no file is left.
remove_all_files(dir) == [n \in {} |-> NoFile]

\* The loop of save_tiff_stack_as_tif_image_sequences from page i on (pages
\* are counted from 0).
RECURSIVE SaveLoop(_, _, _)
SaveLoop(dir, pages, i) ==
    IF i >= Len(pages) THEN dir
    ELSE SaveLoop(Put(dir, FileName(i), pages[i + 1]), pages, i + 1)

save_tiff_stack_as_tif_image_sequences(pages, dir) == SaveLoop(dir, pages, 0)

\* The loop over the colors of fill_2d_image_gaps, as one fold: the state is
\* [mind, closest], the arrays min_distances and closest_values.
RECURSIVE FillLoop(_, _, _, _)
FillLoop(acc, img, colors, maxd) ==
    IF colors = <<>> THEN acc
    ELSE LET color_value == Head(colors)
             dt == distance_transform_edt(img, color_value)
         IN  FillLoop(
                 IF color_value = Background THEN acc
                 ELSE [mind |-> [p \in DOMAIN img |->
                                   IF mask_update(dt, acc.mind, maxd, p)
                                   THEN dt[p] ELSE acc.mind[p]],
                       closest |-> [p \in DOMAIN img |->
                                      IF mask_update(dt, acc.mind, maxd, p)
                                      THEN color_value ELSE acc.closest[p]]],
                 img, Tail(colors), maxd)

\* fill_2d_image_gaps: the image that is saved at output_path.
fill_2d_image_gaps(img, maxd) ==
    LET acc == FillLoop([mind |-> [p \in DOMAIN img |-> Inf],
                         closest |-> [p \in DOMAIN img |-> Background]],
                        img, np_unique(img), maxd)
    IN  [p \in DOMAIN img |->
           IF fill_condition(img, acc.mind, maxd, p)
           THEN acc.closest[p] ELSE CopyOfImage(img)[p]]

\* Page i of the enumerated stacks: one row of two pixels, the first of
\* gray value i + 1, the second background.
Page(i) == [p \in Pixels(1, 2) |-> IF p[2] = 1 THEN i + 1 ELSE Background]

\* A directory that a run over a stack of n + 1 pages left behind.
StaleDir(n) == Put(remove_all_files(<<>>), FileName(n), Page(n))

\* The sequence s with its first k elements moved to the end.
Rotate(s, k) == SubSeq(s, k + 1, Len(s)) \o SubSeq(s, 1, k)

Reverse(s) == [j \in 1..Len(s) |-> s[Len(s) + 1 - j]]

\* The orders in which os.listdir may return the files `names`: the
\* rotations of the ascending and of the descending order (every order of up
\* to three files).
Listings(names) ==
    LET ascending ==
            LET numbers == SortedSeq({ParseDigits(n) : n \in names})
            IN  [j \in 1..Len(numbers) |-> DecimalDigits(numbers[j])]
    IN  {Rotate(ascending, k) : k \in 0..Cardinality(names)}
          \cup {Rotate(Reverse(ascending), k) : k \in 0..Cardinality(names)}

InitSequence ==
    /\ FillIdle
    /\ ViewIdle
    /\ AsmIdle
    /\ \E n \in 1..MaxPages : tif_stack = [i \in 1..n |-> Page(i - 1)]
    /\ images_sequences_dir \in {remove_all_files(<<>>), StaleDir(Len(tif_stack))}
    /\ mece_sequences_dir \in {remove_all_files(<<>>), StaleDir(Len(tif_stack))}
    /\ mece_regions_stack = NoFile
    /\ to_fill = {}
    /\ step = "C"
    /\ sequence_max_distance \in 0..MaxDistance

\* Step C: the directory is emptied and the stack is split into it.
SplitStack ==
    /\ step = "C"
    /\ images_sequences_dir' =
          save_tiff_stack_as_tif_image_sequences(
              tif_stack, remove_all_files(images_sequences_dir))
    /\ step' = "D"
    /\ UNCHANGED <<tif_stack, mece_sequences_dir, mece_regions_stack, to_fill,
                   sequence_max_distance>>
    /\ UNCHANGED <<fillVars, viewVars, asmVars>>

\* Step D: the output directory is emptied and fill_gaps_in_tif_sequence
\* lists the input directory.
StartFillSequence ==
    /\ step = "D"
    /\ mece_sequences_dir' = remove_all_files(mece_sequences_dir)
    /\ to_fill' = DOMAIN images_sequences_dir
    /\ step' = "filling"
    /\ UNCHANGED <<tif_stack, images_sequences_dir, mece_regions_stack,
                   sequence_max_distance>>
    /\ UNCHANGED <<fillVars, viewVars, asmVars>>

\* One iteration of the loop of fill_gaps_in_tif_sequence: the next file of
\* the listing, whatever the order of the listing, is filled and saved under
\* its own name.
FillSlice ==
    /\ step = "filling"
    /\ \E img \in to_fill :
          /\ mece_sequences_dir' =
                Put(mece_sequences_dir, img,
                    fill_2d_image_gaps(images_sequences_dir[img],
                                       sequence_max_distance))
          /\ to_fill' = to_fill \ {img}
    /\ UNCHANGED <<tif_stack, images_sequences_dir, mece_regions_stack, step,
                   sequence_max_distance>>
    /\ UNCHANGED <<fillVars, viewVars, asmVars>>

\* Step E, once the loop of step D is over: the files of the output directory
\* are listed, sorted by numerical_sort and stacked.
StackSequences ==
    /\ step = "filling"
    /\ to_fill = {}
    /\ \E listing \in Listings(DOMAIN mece_sequences_dir) :
          LET tiff_images == sorted(listing)
          IN  mece_regions_stack' =
                  [k \in 1..Len(tiff_images) |-> mece_sequences_dir[tiff_images[k]]]
    /\ step' = "done"
    /\ UNCHANGED <<tif_stack, images_sequences_dir, mece_sequences_dir, to_fill,
                   sequence_max_distance>>
    /\ UNCHANGED <<fillVars, viewVars, asmVars>>

NextSequence == SplitStack \/ StartFillSequence \/ FillSlice \/ StackSequences

SpecSequence == InitSequence /\ [][NextSequence]_vars

\* C13: the reassembled stack has as many pages as the stack that was split,
\* page i is the fill of input page i (and carries the gray value of input
\* page i), and the filled slice of page i is the file named i of the output
\* directory, which holds no other file.
C13_ZOrderPreserved ==
    step = "done" =>
        /\ Len(mece_regions_stack) = Len(tif_stack)
        /\ DOMAIN mece_sequences_dir = {DecimalDigits(i - 1) : i \in 1..Len(tif_stack)}
        /\ \A i \in 1..Len(tif_stack) :
              /\ mece_regions_stack[i] =
                    fill_2d_image_gaps(tif_stack[i], sequence_max_distance)
              /\ mece_regions_stack[i][<<1, 1>>] = i
              /\ mece_sequences_dir[DecimalDigits(i - 1)] = mece_regions_stack[i]

\* A reassembled stack of more than ten pages (a file name of two digits),
\* with the gap of its last page filled.
C13_Witness ==
    /\ step = "done"
    /\ Len(tif_stack) > 10
    /\ Len(mece_regions_stack) = Len(tif_stack)
    /\ sequence_max_distance > 0
    /\ mece_regions_stack[Len(tif_stack)][<<1, 2>>] = Len(tif_stack)

=============================================================================
